---- MODULE Spec2Model ----
(***************************************************************************)
(* Model of raut2webstr-pagemodel-tree.py: the in-place conversion of a    *)
(* raut page/model directory tree (root/models/..., root/pages/...) into   *)
(* the webstr layout (one python module directory per page).               *)
(*                                                                         *)
(* A file name is the sequence of its characters, a path is the sequence   *)
(* of its components, and the filesystem is a function from the paths that *)
(* exist to their nodes.  The command is run twice in a behaviour: the     *)
(* second run works either on the tree the first run left behind or on a   *)
(* fresh copy of the initial tree.                                         *)
(***************************************************************************)
EXTENDS Integers, Sequences, FiniteSets, TLC

VARIABLES
    fs,                 \* the filesystem below (and including) args.directory
    fs0,                \* the tree before the first run
    fsStart,            \* the tree at the start of the current run
    scan,               \* the order in which scandir lists a directory
    run,                \* 1 or 2: which invocation of the command this is
    dry_run,            \* args.dry_run
    root_path,          \* args.root_path: None, or the path given
    pc,                 \* position in main()
    rc,                 \* exit status: 1 if main() returned 1, else 0
    raut_module,        \* index in RAUT_MODULES of the loop of line 113 / 130
    stack,              \* os.walk: what is still to be scanned / yielded
    cur,                \* the (dirname, subdir_list, file_list) yielded last
    src_files,          \* move_files: the files of the loop of line 59 still to do
    empty_init_files,   \* line 112
    ops,                \* operations performed (apply) or printed (dry run)
    moved,              \* per file content: how many moves it was the subject of
    first,              \* what the first run was and did
    empty_seen          \* the markers that were empty when os.walk listed them

vars == <<fs, fs0, fsStart, scan, run, dry_run, root_path, pc, rc, raut_module,
          stack, cur, src_files, empty_init_files, ops, moved, first, empty_seen>>

----------------------------------------------------------------------------
(* Bounds of the model.                                                    *)

\* at most this many optional entries are put into the initial tree
MaxEntries == 3

----------------------------------------------------------------------------
(* File names.                                                             *)

DOT_PY == <<".", "p", "y">>
INIT_PY == <<"_", "_", "i", "n", "i", "t", "_", "_", ".", "p", "y">>
MODELS == <<"m", "o", "d", "e", "l", "s">>
PAGES == <<"p", "a", "g", "e", "s">>
\* RAUT_MODULES with its two names in the other order
RAUT_MODULES_PagesFirst == <<PAGES, MODELS>>

RAUT_MODULES == <<MODELS, PAGES>>

A_DIR == <<"a">>
SUB == <<"s", "u", "b">>
A_PY == <<"a", ".", "p", "y">>
MODELS_PY == MODELS \o DOT_PY
PAGES_PY == PAGES \o DOT_PY
README == <<"r", "e", "a", "d", "m", "e", ".", "t", "x", "t">>
CURDIR == <<".">>
PARDIR == <<".", ".">>

\* every name that can occur in a tree of the model, in directory order
NameOrder ==
    <<INIT_PY, A_DIR, A_PY, MODELS, MODELS_PY, PAGES, PAGES_PY, README, SUB>>

is_py_file(filename) ==
    /\ Len(filename) >= 3
    /\ SubSeq(filename, Len(filename) - 2, Len(filename)) = DOT_PY
    /\ filename # INIT_PY

\* filename[:-3]
StripExt(filename) ==
    IF Len(filename) >= 3 THEN SubSeq(filename, 1, Len(filename) - 3) ELSE <<>>

----------------------------------------------------------------------------
(* os.path on component sequences.                                         *)

Join(path, name) == Append(path, name)

RECURSIVE CommonLen(_, _)
CommonLen(p, q) ==
    IF p # <<>> /\ q # <<>> /\ Head(p) = Head(q)
    THEN 1 + CommonLen(Tail(p), Tail(q))
    ELSE 0

\* os.path.relpath(path, start)
RelPath(path, start) ==
    LET i == CommonLen(path, start)
        ups == [k \in 1..(Len(start) - i) |-> PARDIR]
        rel == ups \o SubSeq(path, i + 1, Len(path))
    IN  IF rel = <<>> THEN <<CURDIR>> ELSE rel

\* os.path.normpath(path)
RECURSIVE NormInto(_, _)
NormInto(done, rest) ==
    IF rest = <<>> THEN done
    ELSE IF Head(rest) = CURDIR THEN NormInto(done, Tail(rest))
    ELSE IF Head(rest) = PARDIR /\ done # <<>> /\ done[Len(done)] # PARDIR
         THEN NormInto(SubSeq(done, 1, Len(done) - 1), Tail(rest))
    ELSE NormInto(Append(done, Head(rest)), Tail(rest))

NormPath(path) == NormInto(<<>>, path)

----------------------------------------------------------------------------
(* The filesystem.                                                         *)

\* args.directory; every path of the model is relative to it
directory == <<>>

Dir == [kind |-> "dir", data |-> <<>>]
File(data) == [kind |-> "file", data |-> data]

Exists(f, p) == p \in DOMAIN f
IsDir(f, p) == p \in DOMAIN f /\ f[p].kind = "dir"
IsFile(f, p) == p \in DOMAIN f /\ f[p].kind = "file"

Parent(p) == SubSeq(p, 1, Len(p) - 1)
Prefixes(p) == {SubSeq(p, 1, k) : k \in 0..Len(p)}
IsUnder(p, d) == Len(p) > Len(d) /\ SubSeq(p, 1, Len(d)) = d

\* names of the entries of directory d
Entries(f, d) == {p[Len(p)] : p \in {q \in DOMAIN f : Len(q) = Len(d) + 1 /\ Parent(q) = d}}

Reverse(s) == [k \in 1..Len(s) |-> s[Len(s) + 1 - k]]

\* os.scandir(d): the entries of d in the directory order of this filesystem
ScanDir(f, d, order) ==
    LET names == Entries(f, d)
        fwd == SelectSeq(NameOrder, LAMBDA n : n \in names)
    IN  IF order = "fwd" THEN fwd ELSE Reverse(fwd)

RemovePath(f, p) == [q \in DOMAIN f \ {p} |-> f[q]]
PutPath(f, p, node) == [q \in DOMAIN f \cup {p} |-> IF q = p THEN node ELSE f[q]]

----------------------------------------------------------------------------
(* Initial trees.                                                          *)

\* what a tree of the model may hold besides the root, its marker and the
\* two raut directories
OptionalEntries == {
    [path |-> <<MODELS, A_PY>>,         node |-> File(<<"m_a">>)],
    [path |-> <<MODELS, SUB, A_PY>>,    node |-> File(<<"m_sub_a">>)],
    [path |-> <<MODELS, PAGES_PY>>,     node |-> File(<<"m_pages">>)],
    [path |-> <<MODELS, MODELS_PY>>,    node |-> File(<<"m_models">>)],
    [path |-> <<MODELS, PAGES, A_PY>>,  node |-> File(<<"m_pages_a">>)],
    [path |-> <<MODELS, INIT_PY>>,      node |-> File(<<>>)],
    [path |-> <<MODELS, INIT_PY>>,      node |-> File(<<"# doc">>)],
    [path |-> <<MODELS, SUB, INIT_PY>>, node |-> File(<<>>)],
    [path |-> <<MODELS, README>>,       node |-> File(<<"read me">>)],
    [path |-> <<PAGES, A_PY>>,          node |-> File(<<"p_a">>)],
    [path |-> <<PAGES, MODELS_PY>>,     node |-> File(<<"p_models">>)],
    [path |-> <<PAGES, INIT_PY>>,       node |-> File(<<>>)],
    [path |-> <<PAGES, README>>,        node |-> File(<<"read me">>)],
    [path |-> <<A_DIR>>,                node |-> File(<<"not a dir">>)],
    [path |-> <<A_DIR, MODELS_PY>>,     node |-> File(<<"old">>)] }

Defects == {"none", "root_missing", "root_is_file", "no_marker", "no_models", "no_pages"}

Consistent(S) ==
    \A e1, e2 \in S :
        e1 # e2 => /\ e1.path # e2.path
                   /\ ~ IsUnder(e1.path, e2.path)

\* the tree that holds the entries S, with the required entries that the
\* defect does not take away
MkTree(S, defect) ==
    LET required == {[path |-> <<INIT_PY>>, node |-> File(<<>>)],
                     [path |-> <<MODELS>>, node |-> Dir],
                     [path |-> <<PAGES>>, node |-> Dir]}
        gone(e) == \/ defect = "no_marker" /\ e.path = <<INIT_PY>>
                   \/ defect = "no_models" /\ Head(e.path) = MODELS
                   \/ defect = "no_pages" /\ Head(e.path) = PAGES
        kept == {e \in S \cup required : ~ gone(e)}
        paths == UNION {Prefixes(e.path) : e \in kept} \cup {<<>>}
    IN  IF defect = "root_missing" THEN << >>
        ELSE IF defect = "root_is_file" THEN (<<>> :> File(<<"x">>))
        ELSE [p \in paths |->
                IF \E e \in kept : e.path = p
                THEN (CHOOSE e \in kept : e.path = p).node
                ELSE Dir]

InitialTrees ==
    {MkTree(S, d) : S \in {T \in SUBSET OptionalEntries :
                              Cardinality(T) <= MaxEntries /\ Consistent(T)},
                    d \in Defects}

\* the source files of a tree: the *.py files under a raut directory
SourceFiles(f) ==
    {p \in DOMAIN f : /\ IsFile(f, p)
                      /\ Len(p) >= 2
                      /\ p[1] \in {MODELS, PAGES}
                      /\ is_py_file(p[Len(p)])}

\* the values of an optional argument
None == << >>
Given(v) == <<v>>

RootPaths == {None, Given(directory)}

\* no source file of tree f has been moved yet
NoMoves(f) == [d \in {f[p].data : p \in SourceFiles(f)} |-> 0]

Idle == [dirname |-> <<>>, subdir_list |-> <<>>, file_list |-> <<>>]

Init ==
    /\ fs0 \in InitialTrees
    /\ fs = fs0
    /\ fsStart = fs0
    /\ scan \in {"fwd", "rev"}
    /\ run = 1
    /\ dry_run \in BOOLEAN
    /\ root_path \in RootPaths
    /\ pc = "validate"
    /\ rc = 0
    /\ raut_module = 1
    /\ stack = <<>>
    /\ cur = Idle
    /\ src_files = <<>>
    /\ empty_init_files = <<>>
    /\ ops = <<>>
    /\ moved = NoMoves(fs0)
    /\ first = [dry_run |-> FALSE, root_path |-> None, pc |-> "none",
                rc |-> 0, ops |-> <<>>, fs |-> << >>, fresh |-> FALSE]
    /\ empty_seen = {}

----------------------------------------------------------------------------
(* Filesystem calls.  Each gives the tree after the call and whether the   *)
(* call succeeded; a failed call raises OSError and changes nothing.       *)

Result(f, ok) == [fs |-> f, ok |-> ok]

\* os.makedirs(path, exist_ok=True)
MakeDirs(f, path) ==
    IF \E q \in Prefixes(path) : IsFile(f, q)
    THEN Result(f, FALSE)
    ELSE Result([q \in DOMAIN f \cup Prefixes(path) |->
                    IF q \in DOMAIN f THEN f[q] ELSE Dir], TRUE)

\* os.open(path, os.O_CREAT, mode=0o664): creates an empty file if there is
\* none, and leaves the content of an existing one alone
OpenCreat(f, path) ==
    IF IsDir(f, path) \/ ~ IsDir(f, Parent(path)) THEN Result(f, FALSE)
    ELSE IF IsFile(f, path) THEN Result(f, TRUE)
    ELSE Result(PutPath(f, path, File(<<>>)), TRUE)

\* os.rename(old, new) of a regular file: replaces a file at new
Rename(f, old, new) ==
    IF ~ IsFile(f, old) \/ IsDir(f, new) \/ ~ IsDir(f, Parent(new))
    THEN Result(f, FALSE)
    ELSE IF old = new THEN Result(f, TRUE)
    ELSE Result(PutPath(RemovePath(f, old), new, f[old]), TRUE)

\* os.remove(path)
Remove(f, path) ==
    IF IsFile(f, path) THEN Result(RemovePath(f, path), TRUE) ELSE Result(f, FALSE)

\* os.rmdir(path)
Rmdir(f, path) ==
    IF IsDir(f, path) /\ Entries(f, path) = {}
    THEN Result(RemovePath(f, path), TRUE)
    ELSE Result(f, FALSE)

----------------------------------------------------------------------------
(* The path planner of move_files, lines 54-65.                            *)

CategoryFile(module) == module \o DOT_PY

\* new_directory of the flat layout: the nesting of src_directory is dropped
new_directory_Flat(module, src_directory) == directory

new_directory(module, src_directory) ==
    NormPath(directory \o RelPath(src_directory, Join(directory, module)))

new_module_path(module, src_directory, filename) ==
    Join(new_directory(module, src_directory), StripExt(filename))

new_module_init(module, src_directory, filename) ==
    Join(new_module_path(module, src_directory, filename), INIT_PY)

old_file_path(src_directory, filename) == Join(src_directory, filename)

new_file_path(module, src_directory, filename) ==
    Join(new_module_path(module, src_directory, filename), CategoryFile(module))

Op(name, path) == [op |-> name, path |-> path, to |-> <<>>]
Mv(old, new) == [op |-> "mv", path |-> old, to |-> new]

----------------------------------------------------------------------------
(* main().                                                                 *)

Item(top, yield) == [top |-> top, yield |-> yield]
WalkFrom(module) == <<Item(Join(directory, module), FALSE)>>

\* ValidDirectory with the loop of line 106 stopping after the first module
ValidDirectory_FirstModuleOnly(f) ==
    /\ IsDir(f, directory)
    /\ IsFile(f, Join(directory, INIT_PY))
    /\ IsDir(f, Join(directory, RAUT_MODULES[1]))

\* lines 100-109: the three checks of the input validation
ValidDirectory(f) ==
    /\ IsDir(f, directory)
    /\ IsFile(f, Join(directory, INIT_PY))
    /\ \A i \in 1..Len(RAUT_MODULES) : IsDir(f, Join(directory, RAUT_MODULES[i]))

ValidateFail ==
    /\ pc = "validate"
    /\ ~ ValidDirectory(fs)
    /\ pc' = "returned"
    /\ rc' = 1
    /\ UNCHANGED <<fs, fs0, fsStart, scan, run, dry_run, root_path, raut_module,
                   stack, cur, src_files, empty_init_files, ops, moved, first, empty_seen>>

ValidatePass ==
    /\ pc = "validate"
    /\ ValidDirectory(fs)
    /\ pc' = "walk"
    /\ raut_module' = 1
    /\ stack' = WalkFrom(RAUT_MODULES[1])
    /\ empty_init_files' = <<>>
    /\ UNCHANGED <<fs, fs0, fsStart, scan, run, dry_run, root_path, rc, cur,
                   src_files, ops, moved, first, empty_seen>>

\* os.walk(top), lines 114-116: scan the next directory and yield it
WalkScan ==
    /\ pc = "walk"
    /\ stack # <<>>
    /\ LET top == Head(stack).top
           entries == ScanDir(fs, top, scan)
           dirs == SelectSeq(entries, LAMBDA n : IsDir(fs, Join(top, n)))
           nondirs == SelectSeq(entries, LAMBDA n : ~ IsDir(fs, Join(top, n)))
           ini == Join(top, INIT_PY)
       IN  IF ~ IsDir(fs, top)
           THEN \* scandir fails, os.walk ignores the error
                /\ stack' = Tail(stack)
                /\ UNCHANGED <<pc, cur, src_files, empty_seen>>
           ELSE /\ stack' = Tail(stack)
                /\ cur' = [dirname |-> top, subdir_list |-> dirs, file_list |-> nondirs]
                /\ src_files' = SelectSeq(nondirs, is_py_file)
                /\ empty_seen' = IF IsFile(fs, ini) /\ fs[ini].data = <<>>
                                 THEN empty_seen \cup {ini}
                                 ELSE empty_seen
                /\ pc' = "move_files"
    /\ UNCHANGED <<fs, fs0, fsStart, scan, run, dry_run, root_path, rc, raut_module,
                   empty_init_files, ops, moved, first>>

\* ApplyMove with the filesystem errors of the pass caught: the pass is
\* given up and the loop goes on with the next file
ApplyMove_IgnoreErrors(f, module, src_directory, filename, root) ==
    LET dir == new_module_path(module, src_directory, filename)
        ini == new_module_init(module, src_directory, filename)
        old == old_file_path(src_directory, filename)
        new == new_file_path(module, src_directory, filename)
        r1 == MakeDirs(f, dir)
        r2 == OpenCreat(r1.fs, ini)
        r3 == Rename(r2.fs, old, new)
    IN  IF ~ r1.ok THEN [fs |-> f, ops |-> <<>>, ok |-> TRUE, moved |-> FALSE]
        ELSE IF ~ r2.ok
             THEN [fs |-> r1.fs, ops |-> <<Op("mkdir", dir)>>, ok |-> TRUE,
                   moved |-> FALSE]
        ELSE IF ~ r3.ok
             THEN [fs |-> r2.fs, ops |-> <<Op("mkdir", dir), Op("touch", ini)>>,
                   ok |-> TRUE, moved |-> FALSE]
        ELSE [fs |-> r3.fs,
              ops |-> <<Op("mkdir", dir), Op("touch", ini), Mv(old, new)>>,
              ok |-> root = None, moved |-> TRUE]

\* what one pass of the loop of lines 59-84 does to the tree in apply mode:
\* the tree after it, the calls completed, and whether it raised
ApplyMove(f, module, src_directory, filename, root) ==
    LET dir == new_module_path(module, src_directory, filename)
        ini == new_module_init(module, src_directory, filename)
        old == old_file_path(src_directory, filename)
        new == new_file_path(module, src_directory, filename)
        r1 == MakeDirs(f, dir)
        r2 == OpenCreat(r1.fs, ini)
        r3 == Rename(r2.fs, old, new)
    IN  IF ~ r1.ok THEN [fs |-> f, ops |-> <<>>, ok |-> FALSE, moved |-> FALSE]
        ELSE IF ~ r2.ok
             THEN [fs |-> r1.fs, ops |-> <<Op("mkdir", dir)>>, ok |-> FALSE,
                   moved |-> FALSE]
        ELSE IF ~ r3.ok
             THEN [fs |-> r2.fs, ops |-> <<Op("mkdir", dir), Op("touch", ini)>>,
                   ok |-> FALSE, moved |-> FALSE]
        ELSE \* lines 81-84: the marker is opened for appending, and building
             \* the line raises NameError (module_basename is not defined)
             \* before anything is written
             [fs |-> r3.fs,
              ops |-> <<Op("mkdir", dir), Op("touch", ini), Mv(old, new)>>,
              ok |-> root = None, moved |-> TRUE]

\* what one pass of the loop prints in dry-run mode, lines 69-76
DryMove(f, module, src_directory, filename, root) ==
    LET dir == new_module_path(module, src_directory, filename)
        ini == new_module_init(module, src_directory, filename)
        old == old_file_path(src_directory, filename)
        new == new_file_path(module, src_directory, filename)
    IN  [fs |-> f,
         ops |-> <<Op("mkdir", dir), Op("touch", ini), Mv(old, new)>>,
         ok |-> root = None, moved |-> TRUE]

MoveOne(f, module, src_directory, filename, dry, root) ==
    IF dry THEN DryMove(f, module, src_directory, filename, root)
    ELSE ApplyMove(f, module, src_directory, filename, root)

\* move_files, one pass of the loop of line 59
MoveFile ==
    /\ pc = "move_files"
    /\ src_files # <<>>
    /\ LET filename == Head(src_files)
           old == old_file_path(cur.dirname, filename)
           r == MoveOne(fs, RAUT_MODULES[raut_module], cur.dirname, filename,
                        dry_run, root_path)
       IN  /\ fs' = r.fs
           /\ ops' = ops \o r.ops
           /\ moved' = IF r.moved /\ IsFile(fs, old) /\ fs[old].data \in DOMAIN moved
                       THEN [moved EXCEPT ![fs[old].data] = @ + 1]
                       ELSE moved
           /\ IF r.ok
              THEN /\ src_files' = Tail(src_files)
                   /\ UNCHANGED pc
              ELSE /\ pc' = "raised"
                   /\ UNCHANGED src_files
    /\ UNCHANGED <<fs0, fsStart, scan, run, dry_run, root_path, rc, raut_module,
                   stack, cur, empty_init_files, first, empty_seen>>

\* EndVisit recording every listed marker, without the test of its size
EndVisit_NoSizeTest ==
    /\ pc = "move_files"
    /\ src_files = <<>>
    /\ LET ini == Join(cur.dirname, INIT_PY)
           listed == \E k \in 1..Len(cur.file_list) : cur.file_list[k] = INIT_PY
           children == [k \in 1..Len(cur.subdir_list) |->
                           Item(Join(cur.dirname, cur.subdir_list[k]), FALSE)]
       IN  /\ empty_init_files' =
                  IF listed THEN Append(empty_init_files, ini) ELSE empty_init_files
           /\ stack' = children \o stack
           /\ pc' = "walk"
    /\ UNCHANGED <<fs, fs0, fsStart, scan, run, dry_run, root_path, rc, raut_module,
                   cur, src_files, ops, moved, first, empty_seen>>

\* lines 119-121, and os.walk going on to the subdirectories it listed
EndVisit ==
    /\ pc = "move_files"
    /\ src_files = <<>>
    /\ LET ini == Join(cur.dirname, INIT_PY)
           listed == \E k \in 1..Len(cur.file_list) : cur.file_list[k] = INIT_PY
           children == [k \in 1..Len(cur.subdir_list) |->
                           Item(Join(cur.dirname, cur.subdir_list[k]), FALSE)]
       IN  IF listed /\ ~ Exists(fs, ini)
           THEN \* os.path.getsize raises
                /\ pc' = "raised"
                /\ UNCHANGED <<empty_init_files, stack>>
           ELSE /\ empty_init_files' =
                       IF listed /\ Len(fs[ini].data) = 0
                       THEN Append(empty_init_files, ini)
                       ELSE empty_init_files
                /\ stack' = children \o stack
                /\ pc' = "walk"
    /\ UNCHANGED <<fs, fs0, fsStart, scan, run, dry_run, root_path, rc, raut_module,
                   cur, src_files, ops, moved, first, empty_seen>>

\* line 113: the walk of one raut module is over
WalkDone ==
    /\ pc = "walk"
    /\ stack = <<>>
    /\ IF raut_module < Len(RAUT_MODULES)
       THEN /\ raut_module' = raut_module + 1
            /\ stack' = WalkFrom(RAUT_MODULES[raut_module + 1])
            /\ UNCHANGED pc
       ELSE /\ pc' = "rm_init"
            /\ UNCHANGED <<raut_module, stack>>
    /\ UNCHANGED <<fs, fs0, fsStart, scan, run, dry_run, root_path, rc, cur,
                   src_files, empty_init_files, ops, moved, first, empty_seen>>

\* RemoveOne without the test of args.dry_run
RemoveOne_IgnoreDryRun(f, init_file, dry) == Remove(f, init_file)

\* what the body of the loop of lines 124-128 does
RemoveOne(f, init_file, dry) ==
    IF dry THEN Result(f, TRUE) ELSE Remove(f, init_file)

RemoveInit ==
    /\ pc = "rm_init"
    /\ empty_init_files # <<>>
    /\ LET init_file == Head(empty_init_files)
           r == RemoveOne(fs, init_file, dry_run)
       IN  /\ fs' = r.fs
           /\ IF r.ok
              THEN /\ ops' = Append(ops, Op("rm", init_file))
                   /\ empty_init_files' = Tail(empty_init_files)
                   /\ UNCHANGED pc
              ELSE /\ pc' = "raised"
                   /\ UNCHANGED <<ops, empty_init_files>>
    /\ UNCHANGED <<fs0, fsStart, scan, run, dry_run, root_path, rc, raut_module,
                   stack, cur, src_files, moved, first, empty_seen>>

RemoveInitDone ==
    /\ pc = "rm_init"
    /\ empty_init_files = <<>>
    /\ pc' = "rmdir"
    /\ raut_module' = 1
    /\ stack' = WalkFrom(RAUT_MODULES[1])
    /\ UNCHANGED <<fs, fs0, fsStart, scan, run, dry_run, root_path, rc, cur,
                   src_files, empty_init_files, ops, moved, first, empty_seen>>

\* RmdirScan with os.walk in its default order: a directory is yielded
\* before its subdirectories
RmdirScan_TopDown ==
    /\ pc = "rmdir"
    /\ stack # <<>>
    /\ ~ Head(stack).yield
    /\ LET top == Head(stack).top
           entries == ScanDir(fs, top, scan)
           dirs == SelectSeq(entries, LAMBDA n : IsDir(fs, Join(top, n)))
           children == [k \in 1..Len(dirs) |-> Item(Join(top, dirs[k]), FALSE)]
       IN  IF ~ IsDir(fs, top)
           THEN stack' = Tail(stack)
           ELSE stack' = <<Item(top, TRUE)>> \o children \o Tail(stack)
    /\ UNCHANGED <<fs, fs0, fsStart, scan, run, dry_run, root_path, pc, rc,
                   raut_module, cur, src_files, empty_init_files, ops, moved, first, empty_seen>>

\* os.walk(top, topdown=False), lines 131-132: scan a directory, and yield it
\* only after its subdirectories
RmdirScan ==
    /\ pc = "rmdir"
    /\ stack # <<>>
    /\ ~ Head(stack).yield
    /\ LET top == Head(stack).top
           entries == ScanDir(fs, top, scan)
           dirs == SelectSeq(entries, LAMBDA n : IsDir(fs, Join(top, n)))
           children == [k \in 1..Len(dirs) |-> Item(Join(top, dirs[k]), FALSE)]
       IN  IF ~ IsDir(fs, top)
           THEN stack' = Tail(stack)
           ELSE stack' = children \o <<Item(top, TRUE)>> \o Tail(stack)
    /\ UNCHANGED <<fs, fs0, fsStart, scan, run, dry_run, root_path, pc, rc,
                   raut_module, cur, src_files, empty_init_files, ops, moved, first, empty_seen>>

\* RmdirOne removing the directory with whatever it holds, without listing it
RmdirOne_NoListdir(f, dirname, dry) ==
    IF dry THEN [fs |-> f, did |-> TRUE, ok |-> TRUE]
    ELSE [fs |-> [q \in {x \in DOMAIN f : x # dirname /\ ~ IsUnder(x, dirname)} |-> f[q]],
          did |-> TRUE, ok |-> TRUE]

\* what the body of the loop of lines 133-136 does with a yielded directory:
\* the tree after it, whether a rmdir was printed or performed, whether it raised
RmdirOne(f, dirname, dry) ==
    IF dry THEN [fs |-> f, did |-> TRUE, ok |-> TRUE]
    ELSE IF ~ IsDir(f, dirname)
         THEN [fs |-> f, did |-> FALSE, ok |-> FALSE]   \* os.listdir raises
    ELSE IF Entries(f, dirname) = {}
         THEN [fs |-> Rmdir(f, dirname).fs, did |-> TRUE, ok |-> TRUE]
    ELSE [fs |-> f, did |-> FALSE, ok |-> TRUE]

RmdirYield ==
    /\ pc = "rmdir"
    /\ stack # <<>>
    /\ Head(stack).yield
    /\ LET dirname == Head(stack).top
           r == RmdirOne(fs, dirname, dry_run)
       IN  /\ fs' = r.fs
           /\ ops' = IF r.did THEN Append(ops, Op("rmdir", dirname)) ELSE ops
           /\ IF r.ok
              THEN /\ stack' = Tail(stack)
                   /\ UNCHANGED pc
              ELSE /\ pc' = "raised"
                   /\ UNCHANGED stack
    /\ UNCHANGED <<fs0, fsStart, scan, run, dry_run, root_path, rc, raut_module,
                   cur, src_files, empty_init_files, moved, first, empty_seen>>

\* line 130: the bottom-up walk of one raut module is over; after the last
\* one main() returns None
RmdirDone ==
    /\ pc = "rmdir"
    /\ stack = <<>>
    /\ IF raut_module < Len(RAUT_MODULES)
       THEN /\ raut_module' = raut_module + 1
            /\ stack' = WalkFrom(RAUT_MODULES[raut_module + 1])
            /\ UNCHANGED pc
       ELSE /\ pc' = "returned"
            /\ UNCHANGED <<raut_module, stack>>
    /\ UNCHANGED <<fs, fs0, fsStart, scan, run, dry_run, root_path, rc, cur,
                   src_files, empty_init_files, ops, moved, first, empty_seen>>

Ended == pc \in {"returned", "raised"}

\* the command is run a second time, on the tree as it is now or on a fresh
\* copy of the initial tree
SecondRun ==
    /\ run = 1
    /\ Ended
    /\ run' = 2
    /\ \E fresh \in BOOLEAN :
          /\ fs' = IF fresh THEN fs0 ELSE fs
          /\ first' = [dry_run |-> dry_run, root_path |-> root_path, pc |-> pc,
                       rc |-> rc, ops |-> ops, fs |-> fs, fresh |-> fresh]
    /\ fsStart' = fs'
    /\ dry_run' \in BOOLEAN
    /\ root_path' \in RootPaths
    /\ pc' = "validate"
    /\ rc' = 0
    /\ raut_module' = 1
    /\ stack' = <<>>
    /\ cur' = Idle
    /\ src_files' = <<>>
    /\ empty_init_files' = <<>>
    /\ ops' = <<>>
    /\ moved' = NoMoves(fs')
    /\ empty_seen' = {}
    /\ UNCHANGED <<fs0, scan>>

Next ==
    \/ ValidateFail
    \/ ValidatePass
    \/ WalkScan
    \/ MoveFile
    \/ EndVisit
    \/ WalkDone
    \/ RemoveInit
    \/ RemoveInitDone
    \/ RmdirScan
    \/ RmdirYield
    \/ RmdirDone
    \/ SecondRun

Spec == Init /\ [][Next]_vars

\* at most this many optional entries are in the initial tree of a behaviour
\* of FairSpec
FairEntries == 1

\* the initial trees of FairSpec: they pass the validation of lines 100-109
FairTrees ==
    {MkTree(S, "none") : S \in {T \in SUBSET OptionalEntries :
                                   Cardinality(T) <= FairEntries /\ Consistent(T)}}

FairInit == Init /\ fs0 \in FairTrees

\* the interpreter runs main() statement by statement: a step that can be
\* taken is taken
FairSpec == FairInit /\ [][Next]_vars /\ WF_vars(Next)

TypeOK ==
    /\ run \in {1, 2}
    /\ pc \in {"validate", "walk", "move_files", "rm_init", "rmdir", "returned", "raised"}
    /\ rc \in {0, 1}
    /\ raut_module \in 1..Len(RAUT_MODULES)
    /\ \A p \in DOMAIN fs : p # <<>> => IsDir(fs, Parent(p))

----------------------------------------------------------------------------
(* Vocabulary of the properties.                                           *)

IsMarker(f, p) == IsFile(f, p) /\ p # <<>> /\ p[Len(p)] = INIT_PY
IsEmptyMarker(f, p) == IsMarker(f, p) /\ f[p].data = <<>>
InCategory(p) == Len(p) >= 2 /\ p[1] \in {MODELS, PAGES}
Completed == pc = "returned" /\ rc = 0
HasOp(s, name) == \E k \in 1..Len(s) : s[k].op = name
OpsOf(s, names) == SelectSeq(s, LAMBDA o : o.op \in names)

\* the paths at which tree f holds a file with content d
PathsOf(f, d) == {q \in DOMAIN f : IsFile(f, q) /\ f[q].data = d}

\* the target of the source file root/c/d1/.../dn/base.py as the layout
\* defines it: root/d1/.../dn/base/c.py
TargetOf(p) ==
    SubSeq(p, 2, Len(p) - 1)
        \o <<SubSeq(p[Len(p)], 1, Len(p[Len(p)]) - Len(DOT_PY)), p[1] \o DOT_PY>>

\* the input that validation has to turn down
InvalidInput(f) ==
    \/ ~ IsDir(f, <<>>)
    \/ ~ IsFile(f, <<INIT_PY>>)
    \/ ~ IsDir(f, <<MODELS>>)
    \/ ~ IsDir(f, <<PAGES>>)

----------------------------------------------------------------------------
\* C1: when the root is not a directory, or has no __init__.py, or a raut
\* directory (models, pages) is missing, main returns 1 and the tree is never
\* changed, in apply mode and in dry-run mode: no operation is performed or
\* printed, and the run is either still validating or has returned 1.
C1_InvalidInputReturnsOneUntouched ==
    InvalidInput(fsStart) =>
        /\ fs = fsStart
        /\ ops = <<>>
        /\ pc = "validate" \/ (pc = "returned" /\ rc = 1)

\* an apply-mode run has returned 1 on a tree that lacks pages/ but holds a
\* source file under models/
C1_Witness ==
    /\ run = 1
    /\ ~ dry_run
    /\ ~ IsDir(fsStart, <<PAGES>>)
    /\ SourceFiles(fsStart) # {}
    /\ pc = "returned"
    /\ rc = 1

\* C2: after an apply-mode run that completes without error, every source
\* file that was under a raut directory before the run exists at exactly one
\* path, its target root/<relative dir>/<base>/<category>.py, and no file is
\* left at its original path.
C2_EverySourceFileAtItsTarget ==
    (~ dry_run /\ Completed) =>
        \A p \in SourceFiles(fsStart) :
            /\ PathsOf(fs, fsStart[p].data) = {TargetOf(p)}
            /\ ~ IsFile(fs, p)

\* C3: a dry run never changes the tree, whatever the options and however
\* the run ends: in every state of a dry run the tree is the tree the run
\* started on.
C3_DryRunLeavesTreeUnchanged ==
    dry_run => fs = fsStart

\* a dry run with a reference root has ended in an exception after printing
\* a move, and a second dry run without one has printed a move, the removal
\* of a marker and the removal of a directory and has returned
C3_Witness ==
    /\ run = 2
    /\ first.dry_run
    /\ first.pc = "raised"
    /\ HasOp(first.ops, "mv")
    /\ dry_run
    /\ Completed
    /\ HasOp(ops, "mv")
    /\ HasOp(ops, "rm")
    /\ HasOp(ops, "rmdir")

\* C4: the operations a dry run prints are, in the same order, the
\* operations an apply-mode run performs on the same tree with the same
\* options (compared for runs that both complete without error).
C4_DryRunPrintsWhatApplyDoes ==
    (/\ run = 2
     /\ first.dry_run
     /\ first.pc = "returned" /\ first.rc = 0
     /\ ~ dry_run
     /\ root_path = first.root_path
     /\ Completed) => ops = first.ops

\* the files of the raut subtrees that are not empty markers
Leftovers(f) == {p \in DOMAIN f : InCategory(p) /\ IsFile(f, p) /\ ~ IsEmptyMarker(f, p)}

\* one step of a run: if it is a step of the cleanup pass, it keeps every
\* leftover, the directories above it, and does not raise
CleanupStepKeepsLeftovers ==
    pc \in {"rm_init", "rmdir"} =>
        /\ \A p \in Leftovers(fs) :
              /\ p \in DOMAIN fs'
              /\ fs'[p] = fs[p]
              /\ \A d \in Prefixes(p) : IsDir(fs', d) \/ d = p
        /\ pc' # "raised"

OnlySourcesAndEmptyMarkers(f) ==
    \A p \in DOMAIN f :
        InCategory(p) => \/ IsDir(f, p)
                         \/ is_py_file(p[Len(p)])
                         \/ IsEmptyMarker(f, p)

\* C6: when the raut directories hold nothing but source files, empty
\* markers and directories of such entries, an apply-mode run without
\* reference root that completes leaves neither root/models nor root/pages.
C6_RautDirectoriesRemoved ==
    (/\ ~ dry_run
     /\ root_path = None
     /\ Completed
     /\ OnlySourcesAndEmptyMarkers(fsStart)) =>
        /\ ~ Exists(fs, <<MODELS>>)
        /\ ~ Exists(fs, <<PAGES>>)

\* C7: without reference root, a second apply-mode run on the tree that a
\* first completed apply-mode run produced neither removes nor changes any
\* marker file that the first run left.
C7_SecondRunKeepsMarkers ==
    (/\ run = 2
     /\ ~ first.dry_run /\ first.root_path = None
     /\ first.pc = "returned" /\ first.rc = 0
     /\ ~ first.fresh
     /\ ~ dry_run /\ root_path = None) =>
        \A p \in DOMAIN fsStart :
            IsMarker(fsStart, p) => p \in DOMAIN fs /\ fs[p] = fsStart[p]

\* C8: an apply-mode run with a reference root performs the same directory
\* creations, moves, marker deletions and directory deletions as an
\* apply-mode run without one that completes on the same initial tree, and
\* the two final trees differ at most in the content of marker files.
C8_ReferenceRootDoesNotChangeMoves ==
    (/\ run = 2
     /\ ~ first.dry_run /\ first.root_path = None
     /\ first.pc = "returned" /\ first.rc = 0
     /\ first.fresh
     /\ ~ dry_run /\ root_path # None
     /\ Ended) =>
        /\ OpsOf(ops, {"mkdir", "mv", "rm", "rmdir"})
               = OpsOf(first.ops, {"mkdir", "mv", "rm", "rmdir"})
        /\ DOMAIN fs = DOMAIN first.fs
        /\ \A p \in DOMAIN fs : ~ IsMarker(fs, p) => fs[p] = first.fs[p]

\* the number of lines of the marker at path p in tree f
Lines(f, p) == IF IsFile(f, p) THEN Len(f[p].data) ELSE 0

\* C9: in apply mode with a reference root, the marker of every target
\* module has gained one line for each file moved into that module so far.
C9_OneAnnotationPerMovedFile ==
    (~ dry_run /\ root_path # None) =>
        \A k \in 1..Len(ops) :
            ops[k].op = "mv" =>
                LET ini == Join(Parent(ops[k].to), INIT_PY)
                    into == {j \in 1..Len(ops) :
                                ops[j].op = "mv" /\ Parent(ops[j].to) = Parent(ops[k].to)}
                IN  Lines(fs, ini) = Lines(fsStart, ini) + Cardinality(into)

\* C10: every move planned for a file root/c/d1/.../dn/<base>.py of category
\* c goes to root/d1/.../dn/<base>/c.py, in the module directory
\* root/d1/.../dn/<base> that the run creates just before; for n = 0 the
\* module directory is a direct child of the root.
C10_PlannedTarget ==
    \A k \in 1..Len(ops) :
        ops[k].op = "mv" =>
            LET old == ops[k].path
                new == ops[k].to
                n == Len(old) - 2
            IN  /\ n >= 0
                /\ old[1] \in {MODELS, PAGES}
                /\ Len(new) = n + 2
                /\ SubSeq(new, 1, n) = SubSeq(old, 2, n + 1)
                /\ new[n + 1] \o DOT_PY = old[n + 2]
                /\ new[n + 2] = old[1] \o DOT_PY
                /\ k >= 3
                /\ ops[k - 2] = Op("mkdir", Parent(new))
                /\ n = 0 => Len(Parent(new)) = 1

\* a run has planned the move of the nested file models/sub/a.py to
\* sub/a/models.py and the move of the flat file pages/a.py to a/pages.py
C10_Witness ==
    /\ \E k \in 1..Len(ops) : ops[k] = Mv(<<MODELS, SUB, A_PY>>, <<SUB, A_DIR, MODELS_PY>>)
    /\ \E k \in 1..Len(ops) : ops[k] = Mv(<<PAGES, A_PY>>, <<A_DIR, PAGES_PY>>)

\* C11: in an apply-mode run no source file is the subject of more than one
\* move, and when the run has completed every source file was the subject of
\* exactly one.
C11_EveryFileMovedOnce ==
    ~ dry_run =>
        \A d \in DOMAIN moved :
            /\ moved[d] <= 1
            /\ Completed => moved[d] = 1

\* the paths that the marker deletions of the run so far removed
Removed == {ops[k].path : k \in {j \in 1..Len(ops) : ops[j].op = "rm"}}

\* C12: in apply mode the markers deleted are markers of the raut subtrees
\* that were present and empty when os.walk listed their directory; none is
\* deleted before the walks of all raut modules are over; when the run has
\* completed every such marker has been deleted and is gone; a marker that
\* has gone, or that a move created and that is no longer there, is one of
\* the deleted ones; non-empty markers and the marker of the root stay as
\* they were.
C12_ExactlyTheEmptyMarkersDeleted ==
    ~ dry_run =>
        /\ Removed \subseteq empty_seen
        /\ \A p \in empty_seen : InCategory(p)
        /\ pc \in {"validate", "walk", "move_files"} => Removed = {}
        /\ Completed => /\ Removed = empty_seen
                        /\ \A p \in empty_seen : ~ Exists(fs, p)
        /\ \A p \in DOMAIN fsStart :
              IsMarker(fsStart, p) =>
                  /\ ~ IsMarker(fs, p) => p \in Removed
                  /\ (fsStart[p].data # <<>> \/ ~ InCategory(p)) =>
                         IsMarker(fs, p) /\ fs[p] = fsStart[p]
        /\ \A k \in 1..Len(ops) :
              ops[k].op = "touch" => IsMarker(fs, ops[k].path) \/ ops[k].path \in Removed

\* an apply-mode run has completed on a tree that held an empty and a
\* non-empty marker in the raut subtrees: the empty one was deleted, the
\* non-empty one and the marker of the root are there
C12_Witness ==
    /\ ~ dry_run
    /\ Completed
    /\ IsEmptyMarker(fsStart, <<MODELS, SUB, INIT_PY>>)
    /\ Removed = {<<MODELS, SUB, INIT_PY>>}
    /\ IsMarker(fs, <<MODELS, INIT_PY>>)
    /\ fs[<<MODELS, INIT_PY>>].data # <<>>
    /\ IsMarker(fs, <<INIT_PY>>)

\* the phase of a run that main() is in
PhaseOf(at) ==
    CASE at = "validate" -> 0
      [] at \in {"walk", "move_files"} -> 1
      [] at = "rm_init" -> 2
      [] at = "rmdir" -> 3
      [] OTHER -> 4

\* the phase that an operation belongs to
OpPhase(o) ==
    CASE o.op \in {"mkdir", "touch", "mv"} -> 1
      [] o.op = "rm" -> 2
      [] OTHER -> 3

\* the operations so far are in the order of the phases
PhasesInOrder ==
    /\ pc = "validate" => fs = fsStart /\ ops = <<>>
    /\ \A k \in 1..Len(ops) : OpPhase(ops[k]) <= PhaseOf(pc)
    /\ \A i, j \in 1..Len(ops) :
          i < j =>
              /\ OpPhase(ops[i]) <= OpPhase(ops[j])
              /\ ~ (/\ ops[i].op = "mv" /\ ops[i].path[1] = PAGES
                    /\ ops[j].op = "mv" /\ ops[j].path[1] = MODELS)

\* a step of a run does not go back to an earlier phase, nor to an earlier
\* raut module within the walks
PhaseStepForward ==
    run' = run =>
        /\ PhaseOf(pc') >= PhaseOf(pc)
        /\ (PhaseOf(pc') = PhaseOf(pc) /\ PhaseOf(pc) \in {1, 3}) =>
               raut_module' >= raut_module

\* C13: nothing is changed or printed before validation has passed; every
\* move out of models comes before every move out of pages; every marker
\* deletion comes after the last move, every directory deletion after the
\* last marker deletion; and a run never steps back to an earlier phase.
C13_PhaseOrdering == [] PhasesInOrder /\ [][PhaseStepForward]_vars

\* an apply-mode run has completed after a move out of models, a move out
\* of pages, a marker deletion and a directory deletion
C13_Witness ==
    /\ ~ dry_run
    /\ Completed
    /\ \E k \in 1..Len(ops) : ops[k].op = "mv" /\ ops[k].path[1] = MODELS
    /\ \E k \in 1..Len(ops) : ops[k].op = "mv" /\ ops[k].path[1] = PAGES
    /\ HasOp(ops, "rm")
    /\ HasOp(ops, "rmdir")

\* the directories of the raut subtrees of tree f, the raut directories included
RautDirs(f) == {p \in DOMAIN f : p # <<>> /\ p[1] \in {MODELS, PAGES} /\ IsDir(f, p)}

\* the positions of the directory deletions in the log of operations
RmdirAt == {k \in 1..Len(ops) : ops[k].op = "rmdir"}

\* C14: in the directory cleanup pass a directory is checked only after all
\* directories below it: when it is checked none of them is still waiting,
\* and (apply mode) each of them that is still there is not empty, so the
\* check sees the directory as its removed subdirectories left it; no
\* directory is removed (or printed) after one of its ancestors; a completed
\* apply-mode run leaves no empty directory in the raut subtrees, and a
\* completed dry run has printed every directory of them.
C14_ChildrenBeforeParents ==
    /\ (pc = "rmdir" /\ stack # <<>> /\ Head(stack).yield) =>
          /\ \A k \in 2..Len(stack) : ~ IsUnder(stack[k].top, Head(stack).top)
          /\ ~ dry_run =>
                \A p \in RautDirs(fs) :
                    IsUnder(p, Head(stack).top) => Entries(fs, p) # {}
    /\ \A i, j \in RmdirAt : i < j => ~ IsUnder(ops[j].path, ops[i].path)
    /\ (~ dry_run /\ Completed) => \A p \in RautDirs(fs) : Entries(fs, p) # {}
    /\ (dry_run /\ Completed) => {ops[k].path : k \in RmdirAt} = RautDirs(fs)

\* an apply-mode run has completed and has removed models/sub, then models,
\* which held nothing but source files and empty markers
C14_Witness ==
    /\ ~ dry_run
    /\ Completed
    /\ IsDir(fsStart, <<MODELS, SUB>>)
    /\ ~ Exists(fs, <<MODELS>>)
    /\ \E i, j \in RmdirAt :
          i < j /\ ops[i].path = <<MODELS, SUB>> /\ ops[j].path = <<MODELS>>

\* the positions of the moves in the log of operations
MvAt == {k \in 1..Len(ops) : ops[k].op = "mv"}

\* C15: after an apply-mode run that completes, every directory that holds
\* a moved file <category>.py holds a marker __init__.py, and a file moved
\* into a module directory is still there when a later move into the same
\* directory has been made (unless it was itself moved on).
C15_TargetModuleHasMarker ==
    (~ dry_run /\ Completed) =>
        /\ \A k \in MvAt :
              IsFile(fs, ops[k].to) => IsMarker(fs, Join(Parent(ops[k].to), INIT_PY))
        /\ \A j, k \in MvAt :
              (j < k /\ Parent(ops[j].to) = Parent(ops[k].to) /\ ops[j].to # ops[k].to) =>
                  \/ IsFile(fs, ops[j].to)
                  \/ \E l \in MvAt : l > j /\ ops[l].path = ops[j].to

\* the next pass of the loop of move_files is an apply-mode pass that the
\* filesystem turns down: the planned module path, or a directory above it,
\* is a regular file, or the source file is no longer there
NextMoveBlocked ==
    /\ src_files # <<>>
    /\ ~ dry_run
    /\ LET module == RAUT_MODULES[raut_module]
           dir == new_module_path(module, cur.dirname, Head(src_files))
       IN  \/ \E q \in Prefixes(dir) : IsFile(fs, q)
           \/ ~ IsFile(fs, old_file_path(cur.dirname, Head(src_files)))

MoveIsBlocked == pc = "move_files" /\ NextMoveBlocked

\* a blocked pass ends the run there: no move is made, and every file and
\* directory of the tree is kept as it is (nothing is rolled back); once
\* the run has raised, its only successor is the next run of the command
BlockedMoveStopsRun ==
    /\ MoveIsBlocked =>
          /\ pc' = "raised"
          /\ OpsOf(ops', {"mv"}) = OpsOf(ops, {"mv"})
          /\ \A p \in DOMAIN fs : p \in DOMAIN fs' /\ fs'[p] = fs[p]
    /\ pc = "raised" => run' # run

\* a run that raised has deleted no marker and no directory, and the moves
\* it made before are in effect: every file it moved, and did not move
\* again, is at its target and not at its old place
RaisedKeepsPartialTree ==
    (pc = "raised" /\ ~ dry_run) =>
        /\ ~ HasOp(ops, "rm")
        /\ ~ HasOp(ops, "rmdir")
        /\ \A k \in MvAt :
              \/ \E l \in MvAt : l > k /\ ops[l].to = ops[k].to
              \/ \E l \in MvAt : l > k /\ ops[l].path = ops[k].to
              \/ /\ IsFile(fs, ops[k].to)
                 /\ ops[k].path # ops[k].to => ~ Exists(fs, ops[k].path)

\* C16: a filesystem failure in the move phase is not caught: the run ends
\* at that operation, no later move, marker deletion or directory deletion
\* is made, and what earlier moves changed stays in effect.
C16_MoveFailureStopsRunWithoutRollback ==
    [] RaisedKeepsPartialTree /\ [][BlockedMoveStopsRun]_vars

\* an apply-mode run that raised at a blocked move after it had moved a file
C16_Witness ==
    /\ ~ dry_run
    /\ root_path = None
    /\ pc = "raised"
    /\ NextMoveBlocked
    /\ HasOp(ops, "mv")
    /\ fs # fsStart
    /\ Len(src_files) + Len(stack) >= 2

\* the root of tree f holds only its marker and the category directories
RootOnly(f) ==
    \A p \in DOMAIN f : Len(p) = 1 => p \in {<<INIT_PY>>, <<MODELS>>, <<PAGES>>}

\* the files of tree f that are not markers
PlainFiles(f) == {p \in DOMAIN f : IsFile(f, p) /\ ~ IsMarker(f, p)}

\* C17: in an apply-mode run on a tree whose root holds only its marker and
\* the category directories, the content of every file that is not a marker
\* is still in the tree, and the number of such files has not changed.
C17_NoFileOverwritten ==
    (~ dry_run /\ RootOnly(fsStart)) =>
        /\ \A p \in PlainFiles(fsStart) : PathsOf(fs, fsStart[p].data) # {}
        /\ Cardinality(PlainFiles(fs)) = Cardinality(PlainFiles(fsStart))

\* the run has ended in the NameError of line 83: the last operation made is
\* the rename of the file that move_files is at
RaisedByNameError ==
    /\ pc = "raised"
    /\ src_files # <<>>
    /\ ops # <<>>
    /\ ops[Len(ops)].op = "mv"
    /\ ops[Len(ops)].path = old_file_path(cur.dirname, Head(src_files))

\* the run has ended in the error of a filesystem call
RaisedByFilesystem == pc = "raised" /\ ~ RaisedByNameError

\* an apply-mode run is at its start, on a tree that passes validation
ApplyRunStarts == pc = "validate" /\ ~ dry_run /\ ValidDirectory(fs)

\* every apply-mode run on a tree that passes validation comes to an end,
\* by returning or by raising: no walk goes on for ever
ApplyRunEnds ==
    \A r \in 1..2 : (run = r /\ ApplyRunStarts) ~> (run = r /\ Ended)

\* C18: an apply-mode run on a tree that passes validation reaches the end
\* of main() with exit status 0 after finitely many steps, unless a
\* filesystem call fails.
C18_ApplyRunReachesDone ==
    \A r \in 1..2 :
        (run = r /\ ApplyRunStarts) ~> (run = r /\ (Completed \/ RaisedByFilesystem))

====
